---- MODULE Spec2Model ----
(***************************************************************************)
(* State-machine model of data-science/src/train.py: one process run of    *)
(* the training job (parse_args, then main statement by statement), the    *)
(* file system it reads and writes, and the experiment tracker it logs to. *)
(***************************************************************************)
EXTENDS Integers, Sequences, FiniteSets, TLC

(* ---------------------------------------------------------------- bounds *)
\* number of process runs on the same arguments and file system
MaxRuns == 2
\* number of distinct values the operating system's entropy source can give
\* an unseeded random number generator
MaxEntropy == 2

(* ------------------------------------------------------ optional values *)
\* Python's None, and a present value
None == <<>>
Some(v) == <<v>>

(* ------------------------------------------------- module-level constants *)
TARGET_COL == "cost"

NUMERIC_COLS ==
  << "distance", "dropoff_latitude", "dropoff_longitude", "passengers",
     "pickup_latitude", "pickup_longitude", "pickup_weekday", "pickup_month",
     "pickup_monthday", "pickup_hour", "pickup_minute", "pickup_second",
     "dropoff_weekday", "dropoff_month", "dropoff_monthday", "dropoff_hour",
     "dropoff_minute", "dropoff_second" >>

CAT_NOM_COLS == << "store_forward", "vendor" >>

CAT_ORD_COLS == << >>

Range(s) == { s[i] : i \in 1..Len(s) }

(* ------------------------------------------------------- the command line *)
\* An option of the command line: omitted, or given with a raw token.
\* A token of an int option is the sequence of its characters.
Omitted == [given |-> FALSE]
Given(t) == [given |-> TRUE, tok |-> t]

Digits == { "0", "1", "2", "3", "4", "5", "6", "7", "8", "9" }

DigitVal(c) ==
  CASE c = "0" -> 0 [] c = "1" -> 1 [] c = "2" -> 2 [] c = "3" -> 3
    [] c = "4" -> 4 [] c = "5" -> 5 [] c = "6" -> 6 [] c = "7" -> 7
    [] c = "8" -> 8 [] c = "9" -> 9

\* the characters after an optional sign
Unsigned(t) ==
  IF Len(t) > 0 /\ t[1] \in { "+", "-" } THEN SubSeq(t, 2, Len(t)) ELSE t

\* int(t) succeeds: an optional sign and at least one decimal digit (tokens
\* with blanks or underscores are not among those explored)
IsIntLiteral(t) ==
  /\ Len(Unsigned(t)) > 0
  /\ \A i \in 1..Len(Unsigned(t)) : Unsigned(t)[i] \in Digits

RECURSIVE DecValue(_)
DecValue(d) ==
  IF Len(d) = 0 THEN 0
  ELSE 10 * DecValue(SubSeq(d, 1, Len(d) - 1)) + DigitVal(d[Len(d)])

\* int(t) for a token that is an int literal
IntValue(t) ==
  IF Len(t) > 0 /\ t[1] = "-" THEN 0 - DecValue(Unsigned(t))
  ELSE DecValue(Unsigned(t))

\* the options declared with type=int, and every declared default
IntOptions ==
  { "regressor__n_estimators", "regressor__bootstrap", "regressor__max_depth",
    "regressor__min_samples_leaf", "regressor__min_samples_split" }

\* the command lines the model explores: every option omitted or given; an
\* int option given as a plain, a signed, a negative or a malformed token
Argvs ==
  [ prepared_data : { Omitted, Given("data"), Given("."), Given("nodir") },
    model_output : { Omitted, Given("out"), Given("data") },
    regressor__n_estimators :
      { Omitted, Given(<<"2", "0">>), Given(<<"1", "e", "3">>) },
    regressor__bootstrap :
      { Omitted, Given(<<"0">>), Given(<<"T", "r", "u", "e">>) },
    regressor__max_depth : { Omitted, Given(<<"-", "1">>) },
    regressor__max_features : { Omitted, Given("sqrt"), Given("bogus") },
    regressor__min_samples_leaf : { Omitted, Given(<<"+", "2">>) },
    regressor__min_samples_split : { Omitted, Given(<<"1", "0">>) } ]

\* type=int: the token converted by int(); type=str: the token itself
Convert(o, tok) == IF o \in IntOptions THEN IntValue(tok) ELSE tok

\* the conversion of a given token raises ValueError
Malformed(o, tok) == o \in IntOptions /\ ~IsIntLiteral(tok)

\* the default of each add_argument (the two path options declare none, which
\* argparse takes as None, and neither is declared required)
Default(o) ==
  CASE o = "regressor__n_estimators" -> 500
    [] o = "regressor__bootstrap" -> 1
    [] o = "regressor__max_depth" -> 10
    [] o = "regressor__max_features" -> "auto"
    [] o = "regressor__min_samples_leaf" -> 4
    [] o = "regressor__min_samples_split" -> 5

\* the attribute argparse stores for a defaulted option
Attr(av, o) == IF av[o].given THEN Convert(o, av[o].tok) ELSE Default(o)

\* the attribute of a path option: None unless given
PathAttr(av, o) == IF av[o].given THEN Some(av[o].tok) ELSE None

\* parser.parse_args() rejects the command line (parser.error, exit status 2)
ArgumentError(av) ==
  \E o \in IntOptions : av[o].given /\ Malformed(o, av[o].tok)

\* the Namespace that parse_args returns
parse_args(av) ==
  [ prepared_data |-> PathAttr(av, "prepared_data"),
    model_output |-> PathAttr(av, "model_output"),
    regressor__n_estimators |-> Attr(av, "regressor__n_estimators"),
    regressor__bootstrap |-> Attr(av, "regressor__bootstrap"),
    regressor__max_depth |-> Attr(av, "regressor__max_depth"),
    regressor__max_features |-> Attr(av, "regressor__max_features"),
    regressor__min_samples_leaf |-> Attr(av, "regressor__min_samples_leaf"),
    regressor__min_samples_split |-> Attr(av, "regressor__min_samples_split") ]

(* --------------------------------------------------------- the file system *)
\* directories that exist ("." is the current working directory)
Dirs == { "data", ".", "out" }

TRAIN_CSV == "train.csv"
MODEL_PKL == "model.pkl"
RESULTS_PNG == "regression_results.png"

FileNames == { TRAIN_CSV, MODEL_PKL, RESULTS_PNG }

Paths == Dirs \X FileNames

Absent == [kind |-> "absent"]

AllCols == Range(NUMERIC_COLS) \cup Range(CAT_NOM_COLS) \cup { TARGET_COL }

Csv(cols, nan) == [kind |-> "csv", columns |-> cols, nan |-> nan]

\* the train.csv files the model explores: absent, complete, complete with a
\* column no list names, with a missing numeric value, and with the target,
\* a numeric or a nominal column dropped
CsvFiles ==
  { Absent,
    Csv(AllCols, FALSE),
    Csv(AllCols \cup { "trip_id" }, FALSE),
    Csv(AllCols \cup { "trip_id" }, TRUE),
    Csv(AllCols \ { TARGET_COL }, FALSE),
    Csv(AllCols \ { "distance" }, FALSE),
    Csv(AllCols \ { "vendor" }, FALSE) }

\* the file system before the first run: the same train.csv in both
\* directories that can hold the prepared data, no output file yet
InitialFs(csv) ==
  [ p \in Paths |-> IF p[2] = TRAIN_CSV /\ p[1] \in { "data", "." }
                    THEN csv ELSE Absent ]

\* faulty variant: a selection that tolerates names that are not columns
HasColumnsUnchecked(table, names) == TRUE

\* table[names] finds every name among the table's columns (else KeyError)
HasColumns(table, names) == names \subseteq table.columns

\* os.listdir(d) of an existing directory
listdir(f, d) == { n \in FileNames : f[<<d, n>>] # Absent }

\* Path(d) / name
Join(d, name) == <<d, name>>

(* ------------------------------------------------------ pipeline building *)
\* faulty variant: the ordinal transformer wired into the column transformer
preprocessorWithOrdinal ==
  [ transformers |->
      << [name |-> "numeric", steps |-> <<"standardscaler">>,
          columns |-> NUMERIC_COLS],
         [name |-> "ordinal", steps |-> <<"imputer", "minmaxscaler">>,
          columns |-> CAT_ORD_COLS],
         [name |-> "nominal", steps |-> <<"imputer", "onehot">>,
          columns |-> CAT_NOM_COLS] >>,
    remainder |-> "drop" ]

\* ColumnTransformer(transformers=[numeric, nominal], remainder="drop");
\* the ordinal transformer is built but left out of the list
preprocessor ==
  [ transformers |->
      << [name |-> "numeric", steps |-> <<"standardscaler">>,
          columns |-> NUMERIC_COLS],
         [name |-> "nominal", steps |-> <<"imputer", "onehot">>,
          columns |-> CAT_NOM_COLS] >>,
    remainder |-> "drop" ]

\* faulty variant: no seed given to the regressor
RANDOM_STATE_None == None

\* the seed given to the regressor
RANDOM_STATE == Some(0)

\* faulty variant: min_samples_leaf taken from the min_samples_split argument
RandomForestRegressorSwapped(a) ==
  [ n_estimators |-> a.regressor__n_estimators,
    bootstrap |-> a.regressor__bootstrap,
    max_depth |-> a.regressor__max_depth,
    max_features |-> a.regressor__max_features,
    min_samples_leaf |-> a.regressor__min_samples_split,
    min_samples_split |-> a.regressor__min_samples_split,
    random_state |-> RANDOM_STATE ]

\* RandomForestRegressor(... from the parsed arguments ..., random_state=0)
RandomForestRegressor(a) ==
  [ n_estimators |-> a.regressor__n_estimators,
    bootstrap |-> a.regressor__bootstrap,
    max_depth |-> a.regressor__max_depth,
    max_features |-> a.regressor__max_features,
    min_samples_leaf |-> a.regressor__min_samples_leaf,
    min_samples_split |-> a.regressor__min_samples_split,
    random_state |-> RANDOM_STATE ]

\* Pipeline(steps=[('preprocessor', ...), ('regressor', ...)]), not yet fitted
MakePipeline(a) ==
  [ preprocessor |-> preprocessor,
    regressor |-> RandomForestRegressor(a),
    fitted |-> None ]

\* faulty variant: the log_param call for max_features left out
ParamLogShort(a) ==
  << <<"model", "RandomForestRegressor">>,
     <<"n_estimators", a.regressor__n_estimators>>,
     <<"bootstrap", a.regressor__bootstrap>>,
     <<"max_depth", a.regressor__max_depth>>,
     <<"min_samples_leaf", a.regressor__min_samples_leaf>>,
     <<"min_samples_split", a.regressor__min_samples_split>> >>

\* the mlflow.log_param calls, in program order
ParamLog(a) ==
  << <<"model", "RandomForestRegressor">>,
     <<"n_estimators", a.regressor__n_estimators>>,
     <<"bootstrap", a.regressor__bootstrap>>,
     <<"max_depth", a.regressor__max_depth>>,
     <<"max_features", a.regressor__max_features>>,
     <<"min_samples_leaf", a.regressor__min_samples_leaf>>,
     <<"min_samples_split", a.regressor__min_samples_split>> >>

\* the columns each branch of a column transformer receives, as
\* <<branch, column>> pairs: every listed column goes to its branch, and the
\* columns no branch lists are passed through only under remainder="passthrough"
Route(pre, xcols) ==
  LET listed == UNION { Range(pre.transformers[i].columns) :
                          i \in 1..Len(pre.transformers) }
  IN  UNION { { <<pre.transformers[i].name, c>> :
                  c \in Range(pre.transformers[i].columns) } :
                i \in 1..Len(pre.transformers) }
      \cup IF pre.remainder = "passthrough"
           THEN { <<"remainder", c>> : c \in xcols \ listed }
           ELSE { }

\* the regressor's own check of its parameters at fit time, in the library
\* releases that accept OneHotEncoder(sparse=False) and max_features="auto"
ValidParams(r) ==
  /\ r.n_estimators >= 1
  /\ r.max_depth >= 1
  /\ r.max_features \in { "auto", "sqrt", "log2" }
  /\ r.min_samples_leaf >= 1
  /\ r.min_samples_split >= 2

\* pipeline.fit(X, y) raises: a listed column is not in X, a missing numeric
\* value reaches the regressor (the numeric branch has no imputer), or the
\* regressor rejects its parameters
FitRaises(pl, X) ==
  \/ \E i \in 1..Len(pl.preprocessor.transformers) :
       ~(Range(pl.preprocessor.transformers[i].columns) \subseteq Range(X.columns))
  \/ X.nan
  \/ ~ValidParams(pl.regressor)

\* what the fitted pipeline is a function of: the features routed to the
\* regressor, its parameters, the training table, and the seed of its random
\* number generator (the given one, or entropy e when none is given)
Fit(pl, X, y, e) ==
  [ features |-> Route(pl.preprocessor, Range(X.columns)),
    params |-> pl.regressor,
    X |-> X, y |-> y,
    seed |-> IF pl.regressor.random_state = None THEN e
             ELSE pl.regressor.random_state[1] ]

\* r2_score, mean_squared_error, np.sqrt(mse), mean_absolute_error
Scores(y, yhat) ==
  [ r2 |-> [fn |-> "r2_score", y |-> y, yhat |-> yhat],
    mse |-> [fn |-> "mean_squared_error", y |-> y, yhat |-> yhat],
    rmse |-> [fn |-> "sqrt", of |-> [fn |-> "mean_squared_error", y |-> y,
                                     yhat |-> yhat]],
    mae |-> [fn |-> "mean_absolute_error", y |-> y, yhat |-> yhat] ]

\* the mlflow.log_metric calls, in program order
MetricLog(s) ==
  << <<"train r2", s.r2>>, <<"train mse", s.mse>>,
     <<"train rmse", s.rmse>>, <<"train mae", s.mae>> >>

(* ------------------------------------------------------------- the state *)
VARIABLES
  argv,        \* the command line of the job
  fs,          \* the file system: path -> content
  pc,          \* the statement the process is at, or "done" / "failed"
  exitCode,    \* the exit status once the process has ended
  failedAt,    \* the statement that raised, once one has
  args,        \* main's local: the parsed Namespace
  arr,         \* main's local: the directory listing
  train_data,  \* main's local: the loaded table
  y_train,     \* main's local: the target column
  X_train,     \* main's local: the feature table
  pipeline,    \* main's local: the pipeline, fitted in place
  yhat_train,  \* main's local: the predictions
  scores,      \* main's locals r2, mse, rmse, mae
  tracker,     \* the ambient tracking run: params, metrics, artifacts logged
  written,     \* the paths this process has opened for writing
  run,         \* which run of the job this is
  prev         \* what the previous run of the job logged

vars ==
  << argv, fs, pc, exitCode, failedAt, args, arr, train_data, y_train,
     X_train, pipeline, yhat_train, scores, tracker, written, run, prev >>

locals == << arr, train_data, y_train, X_train, pipeline, yhat_train, scores >>

\* a local not yet assigned
Unset == [kind |-> "unset"]

\* the process has not exited
Running == 0 - 1

EmptyTracker == [params |-> << >>, metrics |-> << >>, artifacts |-> << >>]

Init ==
  /\ argv \in Argvs
  /\ \E csv \in CsvFiles : fs = InitialFs(csv)
  /\ pc = "parse_args"
  /\ exitCode = Running
  /\ failedAt = None
  /\ args = Unset
  /\ arr = Unset
  /\ train_data = Unset
  /\ y_train = Unset
  /\ X_train = Unset
  /\ pipeline = Unset
  /\ yhat_train = Unset
  /\ scores = Unset
  /\ tracker = EmptyTracker
  /\ written = { }
  /\ run = 1
  /\ prev = EmptyTracker

\* an uncaught exception (status 1) or parser.error (status 2) at the
\* current statement ends the process; nothing is undone
Raise(code) ==
  /\ pc' = "failed"
  /\ exitCode' = code
  /\ failedAt' = Some(pc)

\* faulty variant: the parameters logged after the fit
ProgramFitBeforeParams ==
  << "parse_args", "listdir", "read_csv", "split", "compose", "fit",
     "log_param", "predict", "evaluate", "log_metric", "savefig",
     "log_artifact", "open", "dump" >>

\* faulty variant: the plot logged but never saved
ProgramNoSaveFig ==
  << "parse_args", "listdir", "read_csv", "split", "compose", "log_param",
     "fit", "predict", "evaluate", "log_metric", "log_artifact", "open",
     "dump" >>

\* faulty variant: the model saved before the plot
ProgramPersistFirst ==
  << "parse_args", "listdir", "read_csv", "split", "compose", "log_param",
     "fit", "predict", "evaluate", "log_metric", "open", "dump", "savefig",
     "log_artifact" >>

\* the statements of main, in program order
Program ==
  << "parse_args", "listdir", "read_csv", "split", "compose", "log_param",
     "fit", "predict", "evaluate", "log_metric", "savefig", "log_artifact",
     "open", "dump" >>

\* the statement after statement st; after the last one main returns
After(st) ==
  LET i == CHOOSE j \in 1..Len(Program) : Program[j] = st
  IN  IF i = Len(Program) THEN "done" ELSE Program[i + 1]

\* control moves to statement next; when main returns the status is 0
Goto(next) ==
  /\ pc' = next
  /\ exitCode' = IF next = "done" THEN 0 ELSE exitCode
  /\ UNCHANGED failedAt

(* ------------------------------------------------------------ the actions *)
\* line 81: args = parse_args()
ParseArgs ==
  /\ pc = "parse_args"
  /\ IF ArgumentError(argv)
     THEN Raise(2) /\ UNCHANGED args
     ELSE Goto(After(pc)) /\ args' = parse_args(argv)
  /\ UNCHANGED << argv, fs, locals, tracker, written, run, prev >>

\* line 92: arr = os.listdir(args.prepared_data); None lists the current
\* directory, a directory that does not exist raises FileNotFoundError
ListDir ==
  /\ pc = "listdir"
  /\ LET d == IF args.prepared_data = None THEN "." ELSE args.prepared_data[1]
     IN  IF d \in Dirs
         THEN Goto(After(pc)) /\ arr' = listdir(fs, d)
         ELSE Raise(1) /\ UNCHANGED arr
  /\ UNCHANGED << argv, fs, args, train_data, y_train, X_train, pipeline,
                  yhat_train, scores, tracker, written, run, prev >>

\* line 95: train_data = pd.read_csv(Path(args.prepared_data) / "train.csv");
\* Path(None) raises TypeError, an absent file FileNotFoundError
ReadCsv ==
  /\ pc = "read_csv"
  /\ IF args.prepared_data = None
     THEN Raise(1) /\ UNCHANGED train_data
     ELSE LET p == Join(args.prepared_data[1], TRAIN_CSV)
          IN  IF p \in Paths /\ fs[p] # Absent
              THEN Goto(After(pc)) /\ train_data' = fs[p]
              ELSE Raise(1) /\ UNCHANGED train_data
  /\ UNCHANGED << argv, fs, args, arr, y_train, X_train, pipeline, yhat_train,
                  scores, tracker, written, run, prev >>

\* lines 98-99: y_train = train_data[TARGET_COL];
\* X_train = train_data[NUMERIC_COLS + CAT_NOM_COLS + CAT_ORD_COLS];
\* a name that is not a column raises KeyError
Split ==
  /\ pc = "split"
  /\ LET xcols == NUMERIC_COLS \o CAT_NOM_COLS \o CAT_ORD_COLS
     IN  IF HasColumns(train_data, { TARGET_COL })
            /\ HasColumns(train_data, Range(xcols))
         THEN /\ Goto(After(pc))
              /\ y_train' = [column |-> TARGET_COL]
              /\ X_train' = [columns |-> xcols, nan |-> train_data.nan]
         ELSE \* y_train is assigned when only the second statement raises
              /\ Raise(1)
              /\ y_train' = IF HasColumns(train_data, { TARGET_COL })
                            THEN [column |-> TARGET_COL] ELSE y_train
              /\ UNCHANGED X_train
  /\ UNCHANGED << argv, fs, args, arr, train_data, pipeline, yhat_train,
                  scores, tracker, written, run, prev >>

\* lines 104-142: the transformers, the preprocessor and the pipeline
Compose ==
  /\ pc = "compose"
  /\ Goto(After(pc))
  /\ pipeline' = MakePipeline(args)
  /\ UNCHANGED << argv, fs, args, arr, train_data, y_train, X_train,
                  yhat_train, scores, tracker, written, run, prev >>

\* lines 144-150: the next mlflow.log_param call
LogParam ==
  /\ pc = "log_param"
  /\ LET n == Len(tracker.params) + 1
     IN  /\ tracker' = [tracker EXCEPT
                          !.params = Append(@, ParamLog(args)[n])]
         /\ Goto(IF n = Len(ParamLog(args)) THEN After(pc) ELSE pc)
  /\ UNCHANGED << argv, fs, args, locals, written, run, prev >>

\* line 152: pipeline.fit(X_train, y_train)
FitPipeline ==
  /\ pc = "fit"
  /\ IF FitRaises(pipeline, X_train)
     THEN Raise(1) /\ UNCHANGED pipeline
     ELSE /\ Goto(After(pc))
          /\ \E e \in 1..MaxEntropy :
               pipeline' = [pipeline EXCEPT
                              !.fitted = Some(Fit(pipeline, X_train, y_train, e))]
  /\ UNCHANGED << argv, fs, args, arr, train_data, y_train, X_train,
                  yhat_train, scores, tracker, written, run, prev >>

\* line 155: yhat_train = pipeline.predict(X_train)
Predict ==
  /\ pc = "predict"
  /\ Goto(After(pc))
  /\ yhat_train' = [model |-> pipeline.fitted[1], X |-> X_train]
  /\ UNCHANGED << argv, fs, args, arr, train_data, y_train, X_train, pipeline,
                  scores, tracker, written, run, prev >>

\* lines 158-161: r2, mse, rmse, mae
Evaluate ==
  /\ pc = "evaluate"
  /\ Goto(After(pc))
  /\ scores' = Scores(y_train, yhat_train)
  /\ UNCHANGED << argv, fs, args, arr, train_data, y_train, X_train, pipeline,
                  yhat_train, tracker, written, run, prev >>

\* lines 163-166: the next mlflow.log_metric call
LogMetric ==
  /\ pc = "log_metric"
  /\ LET n == Len(tracker.metrics) + 1
     IN  /\ tracker' = [tracker EXCEPT
                          !.metrics = Append(@, MetricLog(scores)[n])]
         /\ Goto(IF n = Len(MetricLog(scores)) THEN After(pc) ELSE pc)
  /\ UNCHANGED << argv, fs, args, locals, written, run, prev >>

\* faulty variant: the plot saved next to the model, in the output directory
SaveFigInModelOutput ==
  /\ pc = "savefig"
  /\ args.model_output # None
  /\ args.model_output[1] \in Dirs
  /\ Goto(After(pc))
  /\ fs' = [fs EXCEPT ![Join(args.model_output[1], RESULTS_PNG)] =
              [kind |-> "png", size |-> "full", y |-> y_train,
               yhat |-> yhat_train]]
  /\ written' = written \cup { Join(args.model_output[1], RESULTS_PNG) }
  /\ UNCHANGED << argv, args, locals, tracker, run, prev >>

\* lines 169-173: the scatter plot, saved as regression_results.png in the
\* current working directory
SaveFig ==
  /\ pc = "savefig"
  /\ Goto(After(pc))
  /\ fs' = [fs EXCEPT ![Join(".", RESULTS_PNG)] =
              [kind |-> "png", size |-> "full", y |-> y_train,
               yhat |-> yhat_train]]
  /\ written' = written \cup { Join(".", RESULTS_PNG) }
  /\ UNCHANGED << argv, args, locals, tracker, run, prev >>

\* line 174: mlflow.log_artifact("regression_results.png")
LogArtifact ==
  /\ pc = "log_artifact"
  /\ Goto(After(pc))
  /\ tracker' = [tracker EXCEPT
                   !.artifacts = Append(@, <<RESULTS_PNG,
                                             fs[Join(".", RESULTS_PNG)]>>)]
  /\ UNCHANGED << argv, fs, args, locals, written, run, prev >>

\* line 177, the argument: open(Path(args.model_output) / "model.pkl", "wb");
\* Path(None) raises TypeError, a directory that does not exist
\* FileNotFoundError, otherwise the file is created or truncated
OpenModel ==
  /\ pc = "open"
  /\ IF args.model_output # None /\ args.model_output[1] \in Dirs
     THEN LET p == Join(args.model_output[1], MODEL_PKL)
          IN  /\ Goto(After(pc))
              /\ fs' = [fs EXCEPT ![p] = [kind |-> "pickle", size |-> "empty"]]
              /\ written' = written \cup { p }
     ELSE Raise(1) /\ UNCHANGED << fs, written >>
  /\ UNCHANGED << argv, args, locals, tracker, run, prev >>

\* line 177, the call: pickle.dump(pipeline, file)
Dump ==
  /\ pc = "dump"
  /\ Goto(After(pc))
  /\ fs' = [fs EXCEPT ![Join(args.model_output[1], MODEL_PKL)] =
              [kind |-> "pickle", size |-> "full", obj |-> pipeline]]
  /\ UNCHANGED << argv, args, locals, tracker, written, run, prev >>

\* the statements that call into a library that can fail for a reason of its
\* environment (tracker unavailable, disk full, out of memory, permissions)
FaultPcs ==
  { "listdir", "read_csv", "log_param", "fit", "predict", "log_metric",
    "savefig", "log_artifact", "open", "dump" }

\* such a failure: the exception is uncaught; a write it interrupts leaves
\* its file as far as it got
LibraryFault ==
  /\ pc \in FaultPcs
  /\ Raise(1)
  /\ CASE pc = "savefig" ->
            \E left \in { "none", "empty", "partial" } :
              /\ fs' = IF left = "none" THEN fs
                       ELSE [fs EXCEPT ![Join(".", RESULTS_PNG)] =
                               [kind |-> "png", size |-> left]]
              /\ written' = IF left = "none" THEN written
                            ELSE written \cup { Join(".", RESULTS_PNG) }
       [] pc = "dump" ->
            \E left \in { "empty", "partial" } :
              /\ fs' = [fs EXCEPT ![Join(args.model_output[1], MODEL_PKL)] =
                          [kind |-> "pickle", size |-> left]]
              /\ UNCHANGED written
       [] OTHER -> UNCHANGED << fs, written >>
  /\ UNCHANGED << argv, args, locals, tracker, run, prev >>

\* after a run that completed, the job is run again with the same command
\* line on the file system that run left; a new process starts with fresh
\* locals and a fresh tracking run
Rerun ==
  /\ pc = "done"
  /\ run < MaxRuns
  /\ run' = run + 1
  /\ prev' = tracker
  /\ tracker' = EmptyTracker
  /\ pc' = "parse_args"
  /\ exitCode' = Running
  /\ failedAt' = None
  /\ args' = Unset
  /\ arr' = Unset
  /\ train_data' = Unset
  /\ y_train' = Unset
  /\ X_train' = Unset
  /\ pipeline' = Unset
  /\ yhat_train' = Unset
  /\ scores' = Unset
  /\ written' = { }
  /\ UNCHANGED << argv, fs >>

Next ==
  \/ ParseArgs
  \/ ListDir
  \/ ReadCsv
  \/ Split
  \/ Compose
  \/ LogParam
  \/ FitPipeline
  \/ Predict
  \/ Evaluate
  \/ LogMetric
  \/ SaveFig
  \/ LogArtifact
  \/ OpenModel
  \/ Dump
  \/ LibraryFault
  \/ Rerun

Spec == Init /\ [][Next]_vars

\* a run in an environment whose library calls do not fail: the process is
\* the only thread and takes its next statement until it exits
NextNoFault ==
  \/ ParseArgs
  \/ ListDir
  \/ ReadCsv
  \/ Split
  \/ Compose
  \/ LogParam
  \/ FitPipeline
  \/ Predict
  \/ Evaluate
  \/ LogMetric
  \/ SaveFig
  \/ LogArtifact
  \/ OpenModel
  \/ Dump

SpecLive == Init /\ [][NextNoFault]_vars /\ WF_vars(NextNoFault)

(* ------------------------------------------------------------- properties *)
Parsed == pc # "parse_args" /\ failedAt # Some("parse_args")

Composed == pipeline # Unset

Fitted == Composed /\ pipeline.fitted # None

ParamsLogged == Len(tracker.params) = 7 /\ tracker.params = ParamLog(args)

MetricNames == { "train r2", "train mse", "train rmse", "train mae" }

MetricsLogged ==
  /\ Len(tracker.metrics) = 4
  /\ { tracker.metrics[i][1] : i \in 1..4 } = MetricNames

PngPath == Join(".", RESULTS_PNG)

OutputNames == { MODEL_PKL, RESULTS_PNG }

\* train.csv is absent from the prepared-data directory or lacks a required
\* column, and argument parsing has succeeded
BadData ==
  /\ Parsed
  /\ argv.prepared_data.given
  /\ LET d == argv.prepared_data.tok
     IN  \/ d \notin Dirs
         \/ fs[Join(d, TRAIN_CSV)] = Absent
         \/ ~(AllCols \subseteq fs[Join(d, TRAIN_CSV)].columns)

DataLoading == { "listdir", "read_csv", "split" }

\* C1: with train.csv absent or a required column (cost, one of the 18
\* numeric, one of the 2 nominal) missing, the run never gets past data
\* loading: it ends with a fatal error raised there, and no output file has
\* been written and nothing has been logged to the tracker
C1_DataErrorIsFatalBeforeOutput ==
  BadData =>
    /\ pc \in DataLoading \cup { "failed" }
    /\ pc = "failed" =>
         /\ failedAt \in { Some(st) : st \in DataLoading }
         /\ exitCode = 1
    /\ written = { }
    /\ \A p \in Paths : p[2] \in OutputNames => fs[p] = Absent
    /\ tracker = EmptyTracker

C1_Witness ==
  /\ BadData
  /\ pc = "failed"
  /\ failedAt = Some("split")
  /\ fs[Join(argv.prepared_data.tok, TRAIN_CSV)].columns = AllCols \ { "vendor" }

\* C2: a hyperparameter value that cannot be coerced, or a missing path
\* option, makes the process end inside parse_args with a non-zero status
\* before any work: no directory listing, no table, no tracker write, no fit,
\* no output file
C2_ArgumentErrorsEndInParseArgs ==
  ( \/ ArgumentError(argv)
    \/ ~argv.prepared_data.given
    \/ ~argv.model_output.given ) =>
    /\ pc \in { "parse_args", "failed" }
    /\ pc = "failed" => failedAt = Some("parse_args") /\ exitCode # 0
    /\ arr = Unset
    /\ train_data = Unset
    /\ pipeline = Unset
    /\ tracker = EmptyTracker
    /\ written = { }

\* C3: the log_param calls are complete before fit starts; a metric is
\* logged only after fit and predict; a run whose fit fails has its
\* parameters logged and no metric; a run that reaches its end has each of
\* the four metrics logged exactly once
C3_ParamsBeforeFitMetricsAfter ==
  /\ (pc = "fit" \/ Fitted \/ failedAt = Some("fit")) => ParamsLogged
  /\ tracker.metrics # << >> => Fitted /\ yhat_train # Unset
  /\ failedAt = Some("fit") => tracker.metrics = << >>
  /\ pc = "done" => MetricsLogged

C3_Witness ==
  /\ failedAt = Some("fit")
  /\ ParamsLogged
  /\ tracker.metrics = << >>
  /\ ~ValidParams(pipeline.regressor)

\* C4: the regressor is configured with the parsed value of every option
\* given (the explored tokens read 20, 0, -1, +2 and 10) and with the declared
\* default of every option omitted, its seed is 0 whatever the arguments, and
\* each value logged as a parameter is the value the regressor was given
C4_RegressorConfiguredFromArgs ==
  Composed =>
    LET r == pipeline.regressor
        logs(k, v) == \A i \in 1..Len(tracker.params) :
                        tracker.params[i][1] = k => tracker.params[i][2] = v
        keys == { tracker.params[i][1] : i \in 1..Len(tracker.params) }
    IN  /\ r.n_estimators =
             IF argv.regressor__n_estimators.given THEN 20 ELSE 500
        /\ r.bootstrap = IF argv.regressor__bootstrap.given THEN 0 ELSE 1
        /\ r.max_depth = IF argv.regressor__max_depth.given THEN 0 - 1 ELSE 10
        /\ r.max_features =
             IF argv.regressor__max_features.given
             THEN argv.regressor__max_features.tok ELSE "auto"
        /\ r.min_samples_leaf =
             IF argv.regressor__min_samples_leaf.given THEN 2 ELSE 4
        /\ r.min_samples_split =
             IF argv.regressor__min_samples_split.given THEN 10 ELSE 5
        /\ r.random_state = Some(0)
        /\ logs("n_estimators", r.n_estimators)
        /\ logs("bootstrap", r.bootstrap)
        /\ logs("max_depth", r.max_depth)
        /\ logs("max_features", r.max_features)
        /\ logs("min_samples_leaf", r.min_samples_leaf)
        /\ logs("min_samples_split", r.min_samples_split)
        /\ pc = "fit" =>
             { "n_estimators", "bootstrap", "max_depth", "max_features",
               "min_samples_leaf", "min_samples_split" } \subseteq keys

C4_Witness ==
  /\ pc = "fit"
  /\ argv.regressor__n_estimators.given
  /\ ~argv.regressor__bootstrap.given
  /\ argv.regressor__max_depth.given
  /\ argv.regressor__max_features = Given("sqrt")
  /\ ~argv.regressor__min_samples_leaf.given
  /\ argv.regressor__min_samples_split.given
  /\ ParamsLogged

\* the parameter entry logged for field f of the regressor, if any
LoggedField(f) ==
  \E i \in 1..Len(tracker.params) :
    /\ tracker.params[i][1] = f
    /\ tracker.params[i][2] = pipeline.regressor[f]

\* C5 as stated: when fitting starts, every one of the seven values of the
\* hyperparameter set, the fixed random seed included, has been logged
C5_AllSevenLoggedBeforeFit ==
  pc = "fit" => \A f \in DOMAIN pipeline.regressor : LoggedField(f)

\* C5 as amended: when fitting starts, the six hyperparameters taken from the
\* command line and the model name have been logged; the seed is not logged
C5_SixAndModelLoggedBeforeFit ==
  pc = "fit" =>
    /\ \A f \in DOMAIN pipeline.regressor \ { "random_state" } : LoggedField(f)
    /\ \E i \in 1..Len(tracker.params) :
         tracker.params[i] = <<"model", "RandomForestRegressor">>
    /\ \A i \in 1..Len(tracker.params) :
         tracker.params[i][1] # "random_state"
    /\ Len(tracker.params) = 7

C5_Witness ==
  /\ pc = "fit"
  /\ Len(tracker.params) = 7
  /\ argv.regressor__bootstrap.given

\* both path options given and naming existing directories, train.csv
\* present with every required column and no missing numeric value, and
\* arguments the parser and the regressor accept
ValidRun ==
  /\ argv.prepared_data.given
  /\ argv.model_output.given
  /\ argv.prepared_data.tok \in Dirs
  /\ argv.model_output.tok \in Dirs
  /\ fs[Join(argv.prepared_data.tok, TRAIN_CSV)] # Absent
  /\ AllCols \subseteq fs[Join(argv.prepared_data.tok, TRAIN_CSV)].columns
  /\ ~fs[Join(argv.prepared_data.tok, TRAIN_CSV)].nan
  /\ ~ArgumentError(argv)
  /\ ValidParams(RandomForestRegressor(parse_args(argv)))

Succeeded ==
  /\ pc = "done"
  /\ exitCode = 0
  /\ ParamsLogged
  /\ MetricsLogged
  /\ Len(tracker.artifacts) = 1
  /\ fs[PngPath].kind = "png"
  /\ fs[PngPath].size = "full"
  /\ fs[Join(argv.model_output.tok, MODEL_PKL)].kind = "pickle"
  /\ fs[Join(argv.model_output.tok, MODEL_PKL)].size = "full"

StepsInOrder ==
  << "parse_args", "listdir", "read_csv", "split", "compose", "log_param",
     "fit", "predict", "evaluate", "log_metric", "savefig", "log_artifact",
     "open", "dump", "done" >>

\* C6: a valid run in which no library call fails takes its steps in order
\* (load, compose, log parameters, fit, predict, log metrics, plot, persist)
\* and eventually ends with status 0, regression_results.png and model.pkl
\* written and non-empty
C6_ValidRunSucceeds ==
  /\ (pc = "parse_args" /\ ValidRun) ~> Succeeded
  /\ [][ (ValidRun /\ pc' # pc) =>
           \E i \in 1..(Len(StepsInOrder) - 1) :
             pc = StepsInOrder[i] /\ pc' = StepsInOrder[i + 1] ]_vars

C6_Witness == ValidRun /\ Succeeded

\* the files a run may write: the plot in the current working directory and
\* the model in the output directory
OutputPaths ==
  { PngPath } \cup
  ( IF argv.model_output.given /\ argv.model_output.tok \in Dirs
    THEN { Join(argv.model_output.tok, MODEL_PKL) } ELSE { } )

WritesOnlyOutputs ==
  /\ \A p \in Paths : fs'[p] # fs[p] => p \in OutputPaths
  /\ written' \subseteq OutputPaths
  /\ pc' = "done" =>
       /\ written' = OutputPaths
       /\ Cardinality(written') = 2
       /\ fs'[Join(argv.model_output.tok, MODEL_PKL)] =
            [kind |-> "pickle", size |-> "full", obj |-> pipeline]

TrainCsvUnchanged ==
  \A d \in Dirs : fs'[Join(d, TRAIN_CSV)] = fs[Join(d, TRAIN_CSV)]

InputDirUnchanged ==
  (argv.prepared_data.given /\ argv.prepared_data.tok \in Dirs) =>
    listdir(fs', argv.prepared_data.tok) = listdir(fs, argv.prepared_data.tok)

C8_RerunLogsSameValues ==
  run > 1 =>
    /\ \A i \in 1..Len(tracker.params) : tracker.params[i] = prev.params[i]
    /\ \A i \in 1..Len(tracker.metrics) : tracker.metrics[i] = prev.metrics[i]

C8_Witness == run > 1 /\ pc = "done" /\ ParamsLogged /\ MetricsLogged

\* C9: every column reaches the regressor through at most one branch; the 18
\* numeric columns through the numeric branch only, store_forward and vendor
\* through the nominal branch only; the composed preprocessor has no ordinal
\* branch; no other column of the table, the target included, is a feature
C9_ColumnsRoutedToOneBranch ==
  Fitted =>
    LET F == pipeline.fitted[1].features
        branches == { pipeline.preprocessor.transformers[i].name :
                        i \in 1..Len(pipeline.preprocessor.transformers) }
    IN  /\ \A a \in F, b \in F : a[2] = b[2] => a[1] = b[1]
        /\ Cardinality(Range(NUMERIC_COLS)) = 18
        /\ { a[2] : a \in { b \in F : b[1] = "numeric" } } = Range(NUMERIC_COLS)
        /\ { a[2] : a \in { b \in F : b[1] = "nominal" } } =
             { "store_forward", "vendor" }
        /\ branches = { "numeric", "nominal" }
        /\ { a[1] : a \in F } = { "numeric", "nominal" }
        /\ \A c \in train_data.columns :
             c \notin Range(NUMERIC_COLS) \cup { "store_forward", "vendor" }
               => \A a \in F : a[2] # c
        /\ \A a \in F : a[2] # "cost"

C9_Witness ==
  /\ Fitted
  /\ "trip_id" \in train_data.columns
  /\ "cost" \in train_data.columns

\* C10: model.pkl is created only after everything else: once this run has
\* created it (even empty or partial), all parameters and the four metrics
\* are logged and the plot is written and logged as an artifact; a failure at
\* the persistence step ends the run with a non-zero status and leaves the
\* plot and the tracker entries in place
C10_PersistenceIsLast ==
  /\ (\E p \in written : p[2] = MODEL_PKL) =>
       /\ ParamsLogged
       /\ MetricsLogged
       /\ PngPath \in written
       /\ fs[PngPath].kind = "png" /\ fs[PngPath].size = "full"
       /\ tracker.artifacts = << <<RESULTS_PNG, fs[PngPath]>> >>
  /\ failedAt \in { Some("open"), Some("dump") } =>
       /\ pc = "failed" /\ exitCode # 0
       /\ ParamsLogged
       /\ MetricsLogged
       /\ fs[PngPath].kind = "png" /\ fs[PngPath].size = "full"
       /\ tracker.artifacts = << <<RESULTS_PNG, fs[PngPath]>> >>

C10_Witness ==
  /\ failedAt = Some("open")
  /\ ~argv.model_output.given
  /\ fs[PngPath].kind = "png"
  /\ MetricsLogged

====
